---- MODULE Spec2Model ----
(***************************************************************************)
(* Model of the document synchronisation and hybrid retrieval engine of    *)
(* rag_sample: sync_drive_to_db and search_similar_documents of            *)
(* rag_module.py and the search merge loop of app.py.                      *)
(***************************************************************************)
EXTENDS Integers, Sequences, FiniteSets, TLC

\* ------------------------------------------------------------------ bounds
\* Latest value of the remote clock: every upload or re-upload advances it.
MaxTime == 2
\* Number of admin operations (sync runs and resets) a behaviour starts.
MaxRuns == 2
\* Number of chunks the splitter cuts a non-blank text into.
ChunksPerFile == 2
\* Number of calls of an external service (Drive, the embedding service, the
\* backing store) that fail in one behaviour.
MaxFaults == 1
\* Number of query variants one user turn searches with.
MaxVariants == 2
\* Number of chunks of each file of the corpus a user turn searches.
SearchChunks == 9

\* Length of the longest question asked.
MaxQueryLen == 3
\* Number of synonyms of the longest entry of a synonym dictionary.
MaxSynonyms == 4
\* Number of keywords in the longest reply of the LLM.
MaxAiKeywords == 2
\* Number of turns of the longest chat history.
MaxHistory == 4

\* ------------------------------------------------------ program constants
\* top_k of the search call of the merge loop.
TOP_K == 7
\* min_keyword_count of search_similar_documents.
MIN_KEYWORD_COUNT == 2
\* The number of merged chunks handed to answer generation.
MAX_SOURCE_DOCS == 15

\* The number of turns of the chat history the rewriting prompt quotes.
RECENT_TURNS == 3

\* ------------------------------------------------------------- vocabulary
FileNames == {"policy.pdf", "a.txt"}

\* What the bytes of a remote file extract to: "text" has words, "blank" only
\* white space (a scanned PDF: "" + "\n" for every page), "empty" nothing at
\* all (an empty file, or a type no branch of the extractor handles), "corrupt"
\* makes the reader raise.
Kinds == {"text", "blank", "empty", "corrupt"}

\* The browser sessions whose admin panel can start a sync run.
Sessions == {1, 2}
\* The session that acts in the sequential specification.
Admin == 1

\* The elements of a list.
Range(q) == {q[n] : n \in DOMAIN q}

\* dict.get(key) of a missing key.
None == "None"

VARIABLES
    remote,      \* the Drive folder: file name -> [present, modifiedTime, kind]
    clock,       \* the remote clock
    db,          \* the documents table: a set of rows [id, content, metadata, embedding]
    nextId,      \* the serial id the table gives the next row
    run,         \* per session: the locals of its sync_drive_to_db call
    obs,         \* per session: what its current run called and what failed in it
    runs,        \* admin operations (sync runs, resets) started so far
    faults,      \* failed calls of external services so far
    presented,   \* file name -> the modification time an earlier run listed it with
    turn,        \* the user turn: the locals of the question handler
    session      \* st.session_state and the last query expansion or rewriting

syncVars == <<remote, clock, nextId, run, obs, runs, presented>>

vars == <<remote, clock, db, nextId, run, obs, runs, faults, presented, turn, session>>

\* Whether a call of an external service succeeds: it can fail while the
\* behaviour has failures left.
CallResults == IF faults < MaxFaults THEN BOOLEAN ELSE {TRUE}

\* The failed ones among the calls with the given results.
Failed(results) == Cardinality({i \in DOMAIN results : ~results[i]})


\* ------------------------------------------------------------------- text
\* A text is [origin, ver, ws, body]: the bytes it was extracted from (a file
\* and the modification time of its version), whether it has white space
\* around its words (ws) and whether it has words at all (body).
EmptyText == [origin |-> None, ver |-> 0, ws |-> FALSE, body |-> FALSE]

\* str.strip()
Strip(t) == [t EXCEPT !.ws = FALSE]

\* `not text`
IsFalsy(t) == ~t.ws /\ ~t.body

\* The text the bytes of file f extract to at the remote's current version.
ExtractedText(f) ==
    LET k == remote[f].kind IN
    IF k = "text" THEN [origin |-> f, ver |-> remote[f].modifiedTime, ws |-> TRUE, body |-> TRUE]
    ELSE IF k = "blank" THEN [origin |-> f, ver |-> remote[f].modifiedTime, ws |-> TRUE, body |-> FALSE]
    ELSE EmptyText

\* The reader raises on a corrupt file, the download on a file that is gone
\* or when the network fails (netOk = FALSE).
ExtractionRaises(f, netOk) ==
    ~netOk \/ ~remote[f].present \/ remote[f].kind = "corrupt"

\* The text values: what a str can be in the model.
Texts ==
    [origin : FileNames \cup {None}, ver : 0..MaxTime, ws : BOOLEAN, body : BOOLEAN]

\* download_file_content without its handler: the exception leaves the
\* function, and the caller holds an exception where it wanted a text.
DownloadFileContentUnguarded(f, netOk) ==
    IF ExtractionRaises(f, netOk)
    THEN [origin |-> "Exception", ver |-> 0, ws |-> FALSE, body |-> TRUE]
    ELSE ExtractedText(f)

\* download_file_content: every exception is caught and "" returned.
DownloadFileContent(f, netOk) ==
    IF ExtractionRaises(f, netOk) THEN EmptyText ELSE ExtractedText(f)

\* RecursiveCharacterTextSplitter.split_text: the pieces, each stripped.
SplitText(t) ==
    [i \in 1..ChunksPerFile |->
        [origin |-> t.origin, ver |-> t.ver, idx |-> i - 1, ws |-> FALSE]]

\* embeddings.embed_query: the vector is a function of the text alone.
EmbedQuery(c) == <<"vec", c>>

\* --------------------------------------------------------------- listing
\* list_drive_files: the files of the folder. Only id, name, mimeType and
\* size are requested, so a listed file carries no modification time.
ListDriveFiles == {f \in FileNames : remote[f].present}

\* The order in which the folder lists its files.
FolderOrder == <<"policy.pdf", "a.txt">>

\* The listed files as the list the API returns.
RECURSIVE InOrder(_, _)
InOrder(order, S) ==
    IF order = <<>> THEN <<>>
    ELSE IF Head(order) \in S THEN <<Head(order)>> \o InOrder(Tail(order), S)
    ELSE InOrder(Tail(order), S)

\* existing_files: the distinct non-empty source names of the table.
ExistingFiles(rows) == {r.metadata.source : r \in rows}

\* new_files: the listed files whose name is not in existing, in listing order.
RECURSIVE NewFiles(_, _)
NewFiles(files, existing) ==
    IF files = <<>> THEN <<>>
    ELSE IF Head(files) \in existing THEN NewFiles(Tail(files), existing)
    ELSE <<Head(files)>> \o NewFiles(Tail(files), existing)

\* skipped_files: the listed files whose name is in existing.
RECURSIVE SkippedFiles(_, _)
SkippedFiles(files, existing) ==
    IF files = <<>> THEN <<>>
    ELSE IF Head(files) \in existing THEN <<Head(files)>> \o SkippedFiles(Tail(files), existing)
    ELSE SkippedFiles(Tail(files), existing)

\* The row sync_drive_to_db inserts for chunk c of file f.
Row(id, f, c) ==
    [id |-> id,
     content |-> c,
     metadata |-> [source |-> f, file_id |-> f, mime_type |-> "mime", chunk_index |-> c.idx],
     embedding |-> EmbedQuery(c)]

\* metadata.get(key)
MetaGet(m, k) == IF k \in DOMAIN m THEN m[k] ELSE None

\* `key in mapping`
HasKey(m, k) == k \in DOMAIN m

\* ------------------------------------------------------------------ state
\* In a run record, `interrupted` is not a local of the call: it remembers the
\* files, as <<name, version>>, whose chunk loop an earlier call of the session
\* was cut off in after it had stored some of their chunks.

\* What the last reset_database call of the session saw and returned.
NoReset == [returned |-> FALSE, existing_count |-> 0, deleteFailed |-> FALSE]

IdleRun ==
    [pc |-> "idle", listed |-> <<>>, existing |-> {}, files |-> <<>>,
     skipped_files |-> <<>>, idx |-> 0, chunks |-> <<>>, i |-> 0,
     total_chunks |-> 0, processed_files |-> 0, returned |-> None,
     reset |-> NoReset, interrupted |-> {}]

NoObs ==
    [extract |-> {}, embed |-> {}, inserted |-> {}, insertFailed |-> {},
     embedFailed |-> {}, fileFailed |-> {}, splitFailed |-> {}, blankFiles |-> {},
     readFailed |-> FALSE,
     aborted |-> FALSE, mtimeAtList |-> <<>>, unchanged |-> {}]

NoFile == [present |-> FALSE, modifiedTime |-> 0, kind |-> "empty"]

\* ---------------------------------------------------------------- strings
\* A string is the sequence of its characters.
Letters == {"a", "b"}
Space == " "
Chars == Letters \cup {Space}

StringsUpTo(n) == UNION {[1..k -> Chars] : k \in 0..n}

\* str.strip() of a string of characters.
RECURSIVE LStrip(_)
LStrip(str) ==
    IF str # <<>> /\ Head(str) = Space THEN LStrip(Tail(str)) ELSE str

RECURSIVE RStrip(_)
RStrip(str) ==
    IF str # <<>> /\ str[Len(str)] = Space
    THEN RStrip(SubSeq(str, 1, Len(str) - 1))
    ELSE str

StripStr(str) == RStrip(LStrip(str))

\* The positions at which key occurs in str.
Occurrences(key, str) ==
    {i \in 1..(Len(str) - Len(key) + 1) : SubSeq(str, i, i + Len(key) - 1) = key}

\* `key in str`: key occurs somewhere in str, inside a longer word or not.
Contains(key, str) == key = <<>> \/ Occurrences(key, str) # {}

\* ------------------------------------------------------ synonym dictionary
\* The i-th synonym of a key: i times the other letter.
Synonym(key, i) == [j \in 1..i |-> IF key[1] = "a" THEN "b" ELSE "a"]

DictKeys == {<<l>> : l \in Letters}

\* The dictionary that gives key k its first count[k] synonyms, and has no
\* entry for a key of count 0.
DictOf(count) ==
    [k \in {key \in DictKeys : count[key] > 0} |->
        [i \in 1..count[k] |-> Synonym(k, i)]]

Dictionaries == {DictOf(count) : count \in [DictKeys -> 0..MaxSynonyms]}

\* DEFAULT_SYNONYMS: one key with four synonyms.
DEFAULT_SYNONYMS == DictOf([k \in DictKeys |-> IF k = <<"a">> THEN 4 ELSE 0])

\* ------------------------------------------------------------ expand_query
\* final_keywords.extend(values) for every key of the dictionary the test
\* accepts, in the order of the dictionary.
RECURSIVE ExtendWithSynonyms(_, _, _)
ExtendWithSynonyms(final_keywords, current_dict, keys) ==
    IF keys = {} THEN final_keywords
    ELSE LET key == CHOOSE k \in keys : TRUE
         IN  ExtendWithSynonyms(final_keywords \o current_dict[key],
                                current_dict, keys \ {key})

\* `key in original_query`
KeyInQuery(key, original_query) == Contains(key, original_query)

\* The pieces response.text.strip().split(',') cuts the reply of the LLM
\* into: one piece at least, each with the spaces the LLM put around it.
AiPieces == {<<"a">>, <<Space, "a">>, <<"b", "b", Space>>, <<>>}
AiReplies == UNION {[1..k -> AiPieces] : k \in 1..MaxAiKeywords}

\* ai_keywords: every piece stripped.
AiKeywords(reply) == [i \in DOMAIN reply |-> StripStr(reply[i])]

\* final_keywords before the conversion to a set.
FinalKeywords(original_query, current_dict, llmOk, reply) ==
    LET matched == {key \in DOMAIN current_dict : KeyInQuery(key, original_query)}
        extended == ExtendWithSynonyms(<<original_query>>, current_dict, matched)
    IN  IF llmOk THEN extended \o AiKeywords(reply) ELSE extended

\* The elements of a set in a fixed order.
RECURSIVE Listed(_)
Listed(S) ==
    IF S = {} THEN <<>>
    ELSE LET x == CHOOSE y \in S : TRUE IN <<x>> \o Listed(S \ {x})

\* list(set(final_keywords)): the distinct strings in the order of the set's
\* hash table, which puts any of them (first) in front.
ListOfSet(final_keywords, first) ==
    LET S == {final_keywords[i] : i \in DOMAIN final_keywords}
    IN  <<first>> \o Listed(S \ {first})

\* expand_query
ExpandQuery(original_query, current_dict, llmOk, reply, first) ==
    ListOfSet(FinalKeywords(original_query, current_dict, llmOk, reply), first)

\* ---------------------------------------------- rewrite_query_with_context
\* A turn of the chat history is [question, long]: the question asked, and
\* whether the answer is longer than 200 characters.
Histories ==
    UNION {[1..n -> [question : 1..MaxHistory, long : BOOLEAN]] : n \in 0..MaxHistory}

\* chat_history = None: no list is given.
NoChatHistory == [given |-> FALSE, turns |-> <<>>]

\* The chat_history argument: None, or the list of the turns so far.
ChatHistories ==
    {NoChatHistory} \cup
    {[given |-> TRUE, turns |-> h] :
        h \in {g \in Histories : \A i \in DOMAIN g : g[i].question = i}}

\* `not chat_history or len(chat_history) == 0`
NoHistory(chat_history) == ~chat_history.given \/ Len(chat_history.turns) = 0

\* Every turn of the history quoted.
WholeHistory(chat_history) == chat_history.turns

\* recent_history: chat_history[-3:]
RecentHistory(chat_history) ==
    IF Len(chat_history.turns) > RECENT_TURNS
    THEN SubSeq(chat_history.turns, Len(chat_history.turns) - RECENT_TURNS + 1,
                Len(chat_history.turns))
    ELSE chat_history.turns

\* history_text: the question and the answer preview of every recent turn; a
\* long answer is cut to its first 200 characters.
HistoryText(recent_history) ==
    [i \in DOMAIN recent_history |->
        [question |-> recent_history[i].question, cut |-> recent_history[i].long]]

\* The texts the LLM replies with.
RewriteReplies == {<<"a">>, <<Space, "b", Space>>}

\* rewrite_query_with_context: [result, called, sent], the string returned,
\* whether the LLM was called and the history text of the prompt.
RewriteQueryWithContext(query, chat_history, llmOk, reply) ==
    IF NoHistory(chat_history)
    THEN [result |-> query, called |-> FALSE, sent |-> <<>>]
    ELSE [result |-> IF llmOk THEN StripStr(reply) ELSE query,
          called |-> TRUE,
          sent |-> HistoryText(RecentHistory(chat_history))]

\* ------------------------------------------------------------- the session
IdleSession(dict) ==
    [pc |-> "idle", dynamic_synonyms |-> dict, original_query |-> <<>>,
     final_keywords |-> <<>>, ai_keywords |-> <<>>, search_queries |-> <<>>,
     chat_history |-> NoChatHistory,
     llm_failed |-> FALSE, rewritten |-> [result |-> <<>>, called |-> FALSE, sent |-> <<>>],
     reload |-> [failed |-> FALSE, new_dict |-> DictOf([k \in DictKeys |-> 0]),
                 prior |-> DictOf([k \in DictKeys |-> 0])]]

IdleTurn ==
    [pc |-> "idle", search_queries |-> <<>>, qn |-> 0, returns |-> <<>>,
     all_docs |-> <<>>, all_infos |-> <<>>, seen_contents |-> {},
     source_docs |-> <<>>, similarity_info |-> <<>>, store_failed |-> {},
     vector_results |-> <<>>, error |-> FALSE]

Init ==
    /\ turn = IdleTurn
    /\ session = IdleSession(DEFAULT_SYNONYMS)
    /\ remote \in [FileNames -> {NoFile} \cup
                     [present : {TRUE}, modifiedTime : {1}, kind : Kinds]]
    /\ clock = 1
    /\ db = {}
    /\ nextId = 1
    /\ run = [s \in Sessions |-> IdleRun]
    /\ obs = [s \in Sessions |-> NoObs]
    /\ runs = 0
    /\ faults = 0
    /\ presented = [f \in FileNames |-> 0]

\* ------------------------------------------------------------ the remote
\* A file is uploaded to the folder; its modification time is the new clock.
Upload(f, k) ==
    /\ ~remote[f].present
    /\ clock < MaxTime
    /\ clock' = clock + 1
    /\ remote' = [remote EXCEPT ![f] = [present |-> TRUE, modifiedTime |-> clock + 1, kind |-> k]]
    /\ UNCHANGED <<db, nextId, run, obs, runs, faults, presented, turn, session>>

\* A file of the folder is uploaded again with other content: its
\* modification time strictly increases.
Reupload(f, k) ==
    /\ remote[f].present
    /\ clock < MaxTime
    /\ clock' = clock + 1
    /\ remote' = [remote EXCEPT ![f] = [present |-> TRUE, modifiedTime |-> clock + 1, kind |-> k]]
    /\ UNCHANGED <<db, nextId, run, obs, runs, faults, presented, turn, session>>

\* A file is removed from the folder (or trashed).
Remove(f) ==
    /\ remote[f].present
    /\ remote' = [remote EXCEPT ![f] = NoFile]
    /\ UNCHANGED <<clock, db, nextId, run, obs, runs, faults, presented, turn, session>>

\* ------------------------------------------------------ sync_drive_to_db
\* `return n` of sync_drive_to_db.
Return(r, n) == [r EXCEPT !.pc = "done", !.returned = n]

\* The end of one iteration of the file loop: the next file, or past the
\* last one the summary and `return total_chunks`.
NextFile(r) ==
    IF r.idx >= Len(r.files)
    THEN Return([r EXCEPT !.idx = r.idx + 1], r.total_chunks)
    ELSE [r EXCEPT !.pc = "file", !.idx = r.idx + 1]

\* `continue` of the file loop, taken when the extracted text is empty or
\* blank.
SkipFile(r) == NextFile(r)

\* The call up to the file loop: list the folder, read the stored source
\* names, keep the files that are not stored yet. An exception of the listing
\* reaches the outer handler (return 0); one of the read is caught in place
\* and leaves existing_files empty.
StartSync(s) ==
    /\ run[s].pc \in {"idle", "done", "reset"}
    /\ runs < MaxRuns
    /\ runs' = runs + 1
    /\ \E listOk \in CallResults, readOk \in BOOLEAN :
         LET files    == InOrder(FolderOrder, ListDriveFiles)
             existing == IF readOk THEN ExistingFiles(db) ELSE {}
             new      == NewFiles(files, existing)
             r0       == [IdleRun EXCEPT !.listed = files]
             r1       == [r0 EXCEPT !.existing = existing, !.files = new,
                                    !.skipped_files = SkippedFiles(files, existing)]
             o        == [NoObs EXCEPT
                            !.mtimeAtList = [i \in DOMAIN files |-> remote[files[i]].modifiedTime],
                            !.unchanged = {f \in ListDriveFiles :
                                             presented[f] = remote[f].modifiedTime}]
             o1       == [o EXCEPT !.readFailed = ~readOk]
         IN  /\ readOk \in (IF listOk /\ files # <<>> THEN CallResults ELSE {TRUE})
             /\ faults' = faults + Failed(<<listOk, readOk>>)
             /\ run' = [run EXCEPT ![s] =
                          [(IF ~listOk THEN Return(IdleRun, 0)
                            ELSE IF files = <<>> THEN Return(r0, 0)
                            ELSE IF new = <<>> THEN Return(r1, 0)
                            ELSE [r1 EXCEPT !.pc = "file", !.idx = 1])
                           EXCEPT !.interrupted = run[s].interrupted]]
             /\ obs' = [obs EXCEPT ![s] =
                          IF ~listOk THEN [NoObs EXCEPT !.aborted = TRUE]
                          ELSE IF files = <<>> THEN o
                          ELSE o1]
             /\ presented' = IF listOk
                             THEN [f \in FileNames |->
                                     IF f \in ListDriveFiles THEN remote[f].modifiedTime
                                     ELSE presented[f]]
                             ELSE presented
    /\ UNCHANGED <<remote, clock, db, nextId, turn, session>>

\* One iteration of the file loop up to the chunk loop: download and extract,
\* skip the file when the text is empty or blank, else show its preview and
\* split it. The preview and the split are in no handler of the loop: an
\* exception of theirs (splitOk = FALSE) reaches the outer handler (return 0).
ProcessFile(s) ==
    /\ run[s].pc = "file"
    /\ \E netOk \in CallResults, splitOk \in BOOLEAN :
         LET r     == run[s]
             f     == r.files[r.idx]
             text  == DownloadFileContent(f, netOk)
             valid == ~IsFalsy(text) /\ ~IsFalsy(Strip(text))
             o     == [obs[s] EXCEPT !.extract = @ \cup {f}]
         IN  /\ splitOk \in (IF valid THEN CallResults ELSE {TRUE})
             /\ faults' = faults + Failed(<<netOk, splitOk>>)
             /\ run' = [run EXCEPT ![s] =
                          IF ~valid THEN SkipFile(r)
                          ELSE IF ~splitOk THEN Return(r, 0)
                          ELSE [r EXCEPT !.pc = "chunk", !.i = 1, !.chunks = SplitText(text)]]
             /\ obs' = [obs EXCEPT ![s] =
                          IF valid
                          THEN IF splitOk THEN o
                               ELSE [o EXCEPT !.splitFailed = @ \cup {f}, !.aborted = TRUE]
                          ELSE IF ExtractionRaises(f, netOk)
                          THEN [o EXCEPT !.fileFailed = @ \cup {f}]
                          ELSE [o EXCEPT !.blankFiles = @ \cup {f}]]
    /\ UNCHANGED <<remote, clock, db, nextId, runs, presented, turn, session>>

\* What one iteration of the chunk loop can meet.
ChunkOutcomes == {"stored", "embed_fails", "insert_fails"}

\* The end of one iteration of the chunk loop: the next chunk, or past the
\* last one the file's bookkeeping and the next file.
NextChunk(r) ==
    IF r.i >= Len(r.chunks)
    THEN NextFile([r EXCEPT !.i = r.i + 1,
                            !.total_chunks = r.total_chunks + Len(r.chunks),
                            !.processed_files = r.processed_files + 1])
    ELSE [r EXCEPT !.i = r.i + 1]

\* The handler leaving the chunk loop instead: the rest of the file is dropped.
SkipChunkAbortsFile(r) == NextFile(r)

\* `continue` of the chunk loop's exception handler.
SkipChunk(r) == NextChunk(r)

\* The insert clearing the table first.
InsertReplacingTable(rows, row) == {row}

\* table("documents").insert(row).execute(): the table with one more row.
Insert(rows, row) == rows \cup {row}

\* One iteration of the chunk loop: embed the chunk and insert its row; an
\* exception of either is caught and the loop continues.
StoreChunk(s) ==
    /\ run[s].pc = "chunk"
    /\ \E outcome \in ChunkOutcomes :
         LET r      == run[s]
             f      == r.files[r.idx]
             c      == r.chunks[r.i]
             stored == outcome = "stored"
             o      == [obs[s] EXCEPT !.embed = @ \cup {<<f, c.idx>>}]
         IN  /\ stored \/ faults < MaxFaults
             /\ faults' = faults + (IF stored THEN 0 ELSE 1)
             /\ run' = [run EXCEPT ![s] = IF stored THEN NextChunk(r) ELSE SkipChunk(r)]
             /\ db' = IF stored THEN Insert(db, Row(nextId, f, c)) ELSE db
             /\ nextId' = IF stored THEN nextId + 1 ELSE nextId
             /\ obs' = [obs EXCEPT ![s] =
                          IF stored THEN [o EXCEPT !.inserted = @ \cup {nextId}]
                          ELSE IF outcome = "embed_fails"
                          THEN [o EXCEPT !.embedFailed = @ \cup {<<f, c.idx>>}]
                          ELSE [o EXCEPT !.insertFailed = @ \cup {<<f, c.idx>>}]]
    /\ UNCHANGED <<remote, clock, runs, presented, turn, session>>

\* The script run ends inside the file loop (the process is stopped, the
\* browser session goes away): the call never returns and nothing it stored
\* is taken back, for the loop has no handler or cleanup for that.
Interrupt(s) ==
    /\ run[s].pc \in {"file", "chunk"}
    /\ LET r       == run[s]
           f       == r.files[r.idx]
           partial == /\ r.pc = "chunk"
                      /\ \E x \in db : x.id \in obs[s].inserted /\ x.metadata.source = f
       IN  /\ run' = [run EXCEPT ![s] =
                        [IdleRun EXCEPT
                           !.interrupted = r.interrupted \cup
                              (IF partial THEN {<<f, r.chunks[1].ver>>} ELSE {})]]
           /\ obs' = [obs EXCEPT ![s] = NoObs]
    /\ UNCHANGED <<remote, clock, db, nextId, runs, faults, presented, turn, session>>

\* ---------------------------------------------------------- reset_database
\* The delete that removes nothing.
DeleteNothing(rows) == rows

\* table("documents").delete().neq("id", 0).execute(): the rows left.
DeleteAll(rows) == {r \in rows : ~(r.id # 0)}

\* reset_database, called by the reset button: count the rows; with none,
\* return True; else delete them, count again (the count is only printed) and
\* return True. An exception of any of the three calls returns False.
ResetDatabase(s) ==
    /\ run[s].pc \in {"idle", "done", "reset"}
    /\ runs < MaxRuns
    /\ runs' = runs + 1
    /\ \E countOk \in CallResults, deleteOk \in BOOLEAN, recountOk \in BOOLEAN :
         LET existing_count == Cardinality(db)
             deletes        == countOk /\ existing_count # 0
         IN  /\ deleteOk \in (IF deletes THEN CallResults ELSE {TRUE})
             /\ recountOk \in (IF deletes /\ deleteOk THEN CallResults ELSE {TRUE})
             /\ faults' = faults + Failed(<<countOk, deleteOk, recountOk>>)
             /\ db' = IF deletes /\ deleteOk THEN DeleteAll(db) ELSE db
             /\ run' = [run EXCEPT ![s] =
                          [IdleRun EXCEPT
                             !.pc = "reset",
                             !.reset = [returned |-> countOk /\ deleteOk /\ recountOk,
                                        existing_count |-> existing_count,
                                        deleteFailed |-> ~deleteOk]]]
             /\ obs' = [obs EXCEPT ![s] = NoObs]
    /\ UNCHANGED <<remote, clock, nextId, presented, turn, session>>

\* ------------------------------------------------ search_similar_documents
\* A query variant is [id, slope, shift]: its text is known by how it scores
\* the stored contents, which the last two fields decide.
Slopes == {0, 1, 2}
Shifts == {0, 1}
Scores == {0, 1, 2}
KeywordCounts == {0, 1, 2, 3}

Queries == [id : 1..MaxVariants, slope : Slopes, shift : Shifts]

\* A number for a stored content: the contents of the first file, then those
\* of the second, in chunk order.
ContentKey(c) ==
    c.idx + (IF c.origin = FolderOrder[1] THEN 0 ELSE SearchChunks)

\* cosine_similarity of the embeddings of query q and content c, on a scale of
\* Scores: a function of the two texts.
CosineSimilarity(q, c) == (q.slope * ContentKey(c) + q.shift) % Cardinality(Scores)

\* The total of content_lower.count(keyword) over the keywords of query q.
KeywordCount(q, c) == (q.shift * ContentKey(c) + c.idx) % Cardinality(KeywordCounts)

\* response.data of `select *`: the rows in the order of their ids.
RECURSIVE SelectAll(_)
SelectAll(rows) ==
    IF rows = {} THEN <<>>
    ELSE LET r == CHOOSE x \in rows : \A y \in rows : x.id <= y.id
         IN  <<r>> \o SelectAll(rows \ {r})

\* results: every row with its similarity to the query.
ScoreAll(q, all_docs) ==
    [n \in DOMAIN all_docs |->
        [id |-> all_docs[n].id, content |-> all_docs[n].content,
         metadata |-> all_docs[n].metadata,
         similarity |-> CosineSimilarity(q, all_docs[n].content)]]

\* list.sort(key=similarity, reverse=True): stable, equal keys keep their order.
RECURSIVE InsertBySimilarity(_, _)
InsertBySimilarity(x, sorted) ==
    IF sorted = <<>> THEN <<x>>
    ELSE IF Head(sorted).similarity >= x.similarity
    THEN <<Head(sorted)>> \o InsertBySimilarity(x, Tail(sorted))
    ELSE <<x>> \o sorted

RECURSIVE SortBySimilarityInto(_, _)
SortBySimilarityInto(todo, sorted) ==
    IF todo = <<>> THEN sorted
    ELSE SortBySimilarityInto(Tail(todo), InsertBySimilarity(Head(todo), sorted))

SortBySimilarity(results) == SortBySimilarityInto(results, <<>>)

\* results[:k] and results[k:]
Take(q, k) == SubSeq(q, 1, IF k < Len(q) THEN k ELSE Len(q))
Drop(q, k) == SubSeq(q, k + 1, Len(q))

\* The keyword phase adding nothing.
KeywordBoostedNone(q, rest, min_keyword_count) == <<>>

\* keyword_boosted: the rows the vector phase left out whose keyword count
\* reaches min_keyword_count.
KeywordBoosted(q, rest, min_keyword_count) ==
    SelectSeq(rest, LAMBDA d : KeywordCount(q, d.content) >= min_keyword_count)

\* The key of the de-duplication: source name and stripped content.
UniqueKey(result) == <<result.metadata.source, Strip(result.content)>>

\* deduplicated_results: the first result of every key.
RECURSIVE Deduplicate(_, _)
Deduplicate(combined, seen_items) ==
    IF combined = <<>> THEN <<>>
    ELSE IF UniqueKey(Head(combined)) \in seen_items
    THEN Deduplicate(Tail(combined), seen_items)
    ELSE <<Head(combined)>> \o
         Deduplicate(Tail(combined), seen_items \cup {UniqueKey(Head(combined))})

\* The pair search_similar_documents returns for results.
AsReturn(results) ==
    [documents |-> [n \in DOMAIN results |->
                      [page_content |-> results[n].content,
                       metadata |-> results[n].metadata]],
     similarity_info |-> [n \in DOMAIN results |->
                      [filename |-> results[n].metadata.source,
                       score |-> results[n].similarity]]]

\* `return [], []`
EmptyReturn == [documents |-> <<>>, similarity_info |-> <<>>]

\* search_similar_documents once the rows are loaded.
SearchLoaded(q, all_docs, top_k, min_keyword_count) ==
    IF all_docs = <<>> THEN EmptyReturn
    ELSE LET results == SortBySimilarity(ScoreAll(q, all_docs))
             vector_results == Take(results, top_k)
             keyword_boosted == KeywordBoosted(q, Drop(results, top_k), min_keyword_count)
         IN  AsReturn(Deduplicate(vector_results \o keyword_boosted, {}))

\* vector_results of the call: the first top_k of the sorted results, none when
\* the rows could not be loaded.
VectorResults(q, rows, selectOk, top_k) ==
    IF ~selectOk THEN <<>>
    ELSE Take(SortBySimilarity(ScoreAll(q, SelectAll(rows))), top_k)

\* search_similar_documents with the query embedded: a failure of the select
\* is caught and the empty pair returned.
SearchSimilarDocuments(q, rows, selectOk, top_k, min_keyword_count) ==
    IF ~selectOk THEN EmptyReturn
    ELSE SearchLoaded(q, SelectAll(rows), top_k, min_keyword_count)

\* ------------------------------------------------------ the question handler
\* The merge loop's body for the results of one variant: a document whose
\* page_content was not seen yet is kept, with its info.
RECURSIVE MergeInto(_, _, _)
MergeInto(t, docs, infos) ==
    IF docs = <<>> THEN t
    ELSE IF Head(docs).page_content \in t.seen_contents
    THEN MergeInto(t, Tail(docs), Tail(infos))
    ELSE MergeInto(
           [t EXCEPT !.seen_contents = @ \cup {Head(docs).page_content},
                     !.all_docs = Append(@, Head(docs)),
                     !.all_infos = Append(@, [filename |-> Head(infos).filename,
                                              score |-> Head(infos).score,
                                              content |-> Head(docs).page_content])],
           Tail(docs), Tail(infos))

\* The sort leaving the pairs in the order of the merge.
InsertByScoreUnsorted(x, sorted) == sorted \o <<x>>

\* combined.sort(key=score, reverse=True) on the pairs of zip(all_docs, all_infos).
RECURSIVE InsertByScore(_, _)
InsertByScore(x, sorted) ==
    IF sorted = <<>> THEN <<x>>
    ELSE IF Head(sorted)[2].score >= x[2].score
    THEN <<Head(sorted)>> \o InsertByScore(x, Tail(sorted))
    ELSE <<x>> \o sorted

RECURSIVE SortByScoreInto(_, _)
SortByScoreInto(todo, sorted) ==
    IF todo = <<>> THEN sorted
    ELSE SortByScoreInto(Tail(todo), InsertByScore(Head(todo), sorted))

\* The ranking without its cut: every merged pair is kept.
RankKeepsAll(t) ==
    LET combined == SortByScoreInto(
                      [n \in DOMAIN t.all_docs |-> <<t.all_docs[n], t.all_infos[n]>>], <<>>)
    IN  [t EXCEPT !.pc = "done",
                  !.source_docs = [n \in DOMAIN combined |-> combined[n][1]],
                  !.similarity_info = [n \in DOMAIN combined |-> combined[n][2]]]

\* The ranking after the merge loop: sort the pairs and keep the first 15.
Rank(t) ==
    LET combined == SortByScoreInto(
                      [n \in DOMAIN t.all_docs |-> <<t.all_docs[n], t.all_infos[n]>>], <<>>)
        kept     == Take(combined, MAX_SOURCE_DOCS)
    IN  [t EXCEPT !.pc = "done",
                  !.source_docs = [n \in DOMAIN kept |-> kept[n][1]],
                  !.similarity_info = [n \in DOMAIN kept |-> kept[n][2]]]

\* The end of one iteration of the merge loop: the next variant, or past the
\* last one the ranking.
NextVariant(t) ==
    IF t.qn >= Len(t.search_queries)
    THEN Rank([t EXCEPT !.qn = t.qn + 1])
    ELSE [t EXCEPT !.qn = t.qn + 1]

\* The lists of variants expand_query hands to the merge loop.
QueryLists ==
    UNION {{qs \in [1..n -> Queries] : \A i \in 1..n : qs[i].id = i} : n \in 1..MaxVariants}

\* A question arrives: the handler expands it and enters the merge loop.
AskQuestion ==
    /\ turn.pc = "idle"
    /\ \E qs \in QueryLists :
         turn' = [IdleTurn EXCEPT !.pc = "search", !.search_queries = qs, !.qn = 1]
    /\ UNCHANGED <<db, faults, syncVars, session>>

\* The answer is shown and the handler waits for the next question.
AwaitQuestion ==
    /\ turn.pc = "done"
    /\ turn' = IdleTurn
    /\ UNCHANGED <<db, faults, syncVars, session>>

\* What one search call can meet: the embedding of the query raises, the select
\* of the rows raises, or both succeed.
SearchOutcomes == {"searched", "embed_fails", "select_fails"}

\* One iteration of the merge loop: search with the variant and merge what it
\* returns. An exception of the query embedding leaves search_similar_documents
\* and the loop and reaches the handler's `except`.
SearchVariant ==
    /\ turn.pc = "search"
    /\ \E outcome \in SearchOutcomes :
         LET q   == turn.search_queries[turn.qn]
             ret == SearchSimilarDocuments(q, db, outcome # "select_fails",
                                           TOP_K, MIN_KEYWORD_COUNT)
             t   == [turn EXCEPT !.returns = Append(@, ret),
                                 !.vector_results = Append(@,
                                    VectorResults(q, db, outcome # "select_fails", TOP_K)),
                                 !.store_failed = @ \cup
                                    (IF outcome = "select_fails" THEN {turn.qn} ELSE {})]
         IN  /\ outcome = "searched" \/ faults < MaxFaults
             /\ faults' = faults + (IF outcome = "searched" THEN 0 ELSE 1)
             /\ turn' = IF outcome = "embed_fails"
                        THEN [turn EXCEPT !.pc = "done", !.error = TRUE]
                        ELSE NextVariant(MergeInto(t, ret.documents, ret.similarity_info))
    /\ UNCHANGED <<db, syncVars, session>>

\* -------------------------------------------------------- specification
Environment ==
    \/ \E f \in FileNames, k \in Kinds : Upload(f, k)
    \/ \E f \in FileNames, k \in Kinds : Reupload(f, k)
    \/ \E f \in FileNames : Remove(f)

Next ==
    \/ Environment
    \/ StartSync(Admin)
    \/ ProcessFile(Admin)
    \/ StoreChunk(Admin)

Spec == Init /\ [][Next]_vars

\* ------------------------------------------- specification: admin panel
\* The admin's sync and reset buttons over a folder that does not change,
\* with script runs that can end inside a sync.
NextAdmin ==
    \/ StartSync(Admin)
    \/ ProcessFile(Admin)
    \/ StoreChunk(Admin)
    \/ Interrupt(Admin)
    \/ ResetDatabase(Admin)

SpecAdmin == Init /\ [][NextAdmin]_vars

\* ------------------------------------------- specification: two sessions
\* Every browser session has the sync button: the runs of two sessions go
\* step by step in any order over one folder, which does not change, and one
\* table, empty at first. No call fails.
InitConcurrent ==
    /\ turn = IdleTurn
    /\ session = IdleSession(DEFAULT_SYNONYMS)
    /\ remote \in [FileNames -> {NoFile} \cup
                     [present : {TRUE}, modifiedTime : {1}, kind : Kinds]]
    /\ clock = 1
    /\ db = {}
    /\ nextId = 1
    /\ run = [s \in Sessions |-> IdleRun]
    /\ obs = [s \in Sessions |-> NoObs]
    /\ runs = 0
    /\ faults = MaxFaults
    /\ presented = [f \in FileNames |-> 0]

NextConcurrent ==
    \E s \in Sessions :
        \/ StartSync(s)
        \/ ProcessFile(s)
        \/ StoreChunk(s)

SpecConcurrent == InitConcurrent /\ [][NextConcurrent]_vars

\* The corpora a user turn searches: the table after a sync of both files, of
\* SearchChunks chunks each ("plain"); after a second sync whose read of the
\* stored names failed, which stores the first file again ("resynced"); after
\* a sync of two files of the same bytes ("copied"); and the empty table.
CorpusRow(n, f, origin) ==
    Row(n, f, [origin |-> origin, ver |-> 1, idx |-> (n - 1) % SearchChunks, ws |-> FALSE])

Corpus(shape) ==
    LET first  == {CorpusRow(n, FolderOrder[1], FolderOrder[1]) : n \in 1..SearchChunks}
        second == {CorpusRow(n, FolderOrder[2], FolderOrder[2]) :
                     n \in (SearchChunks + 1)..(2 * SearchChunks)}
        copy   == {CorpusRow(n, FolderOrder[2], FolderOrder[1]) :
                     n \in (SearchChunks + 1)..(2 * SearchChunks)}
        again  == {CorpusRow(n, FolderOrder[1], FolderOrder[1]) :
                     n \in (2 * SearchChunks + 1)..(3 * SearchChunks)}
    IN  IF shape = "plain" THEN first \cup second
        ELSE IF shape = "resynced" THEN first \cup second \cup again
        ELSE IF shape = "copied" THEN first \cup copy
        ELSE {}

CorpusShapes == {"empty", "plain", "resynced", "copied"}

InitSearch ==
    /\ turn = IdleTurn
    /\ session = IdleSession(DEFAULT_SYNONYMS)
    /\ db \in {Corpus(shape) : shape \in CorpusShapes}
    /\ nextId = 3 * SearchChunks + 1
    /\ remote = [f \in FileNames |-> [present |-> TRUE, modifiedTime |-> 1, kind |-> "text"]]
    /\ clock = 1
    /\ run = [s \in Sessions |-> IdleRun]
    /\ obs = [s \in Sessions |-> NoObs]
    /\ runs = 0
    /\ faults = 0
    /\ presented = [f \in FileNames |-> 0]

NextSearch ==
    \/ AskQuestion
    \/ AwaitQuestion
    \/ SearchVariant

SpecSearch == InitSearch /\ [][NextSearch]_vars

\* The question handler expands a question with the dictionary of the session.
ExpandQuestion ==
    /\ session.pc = "idle"
    /\ \E original_query \in StringsUpTo(MaxQueryLen) \ {<<>>}, llmOk \in BOOLEAN,
          reply \in AiReplies :
         LET final_keywords == FinalKeywords(original_query, session.dynamic_synonyms,
                                             llmOk, reply)
         IN  /\ llmOk \/ reply = <<<<>>>>
             /\ \E first \in Range(final_keywords) :
                  session' = [session EXCEPT
                                !.pc = "expanded",
                                !.original_query = original_query,
                                !.final_keywords = final_keywords,
                                !.ai_keywords = IF llmOk THEN AiKeywords(reply) ELSE <<>>,
                                !.llm_failed = ~llmOk,
                                !.search_queries =
                                    ExpandQuery(original_query, session.dynamic_synonyms,
                                                llmOk, reply, first)]
    /\ UNCHANGED <<db, faults, syncVars, turn>>

\* A search call rewrites its query with the chat history it was given.
RewriteQuestion ==
    /\ session.pc = "idle"
    /\ \E query \in StringsUpTo(MaxQueryLen) \ {<<>>}, chat_history \in ChatHistories,
          llmOk \in BOOLEAN, reply \in RewriteReplies :
         /\ llmOk \/ reply = <<"a">>
         /\ session' = [session EXCEPT
                          !.pc = "rewritten",
                          !.original_query = query,
                          !.chat_history = chat_history,
                          !.llm_failed = ~llmOk /\ ~NoHistory(chat_history),
                          !.rewritten = RewriteQueryWithContext(query, chat_history,
                                                                llmOk, reply)]
    /\ UNCHANGED <<db, faults, syncVars, turn>>

\* `if new_dict`: a dictionary with an entry.
IsTruthy(new_dict) == DOMAIN new_dict # {}

\* The dictionary of the session after the reload handler: the loaded one when
\* load_synonyms_from_drive returned a truthy dictionary, else the current one
\* (a failed load returns None).
Reloaded(current_dict, new_dict, loadOk) ==
    IF loadOk /\ IsTruthy(new_dict) THEN new_dict ELSE current_dict

\* The admin reloads the synonym dictionary from dictionary.csv, whose rows
\* parse to new_dict.
ReloadSynonyms ==
    /\ session.pc = "idle"
    /\ \E new_dict \in Dictionaries, loadOk \in BOOLEAN :
         /\ loadOk \/ new_dict = DictOf([k \in DictKeys |-> 0])
         /\ session' = [session EXCEPT
                          !.pc = "reloaded",
                          !.dynamic_synonyms = Reloaded(@, new_dict, loadOk),
                          !.reload = [failed |-> ~loadOk, new_dict |-> new_dict,
                                      prior |-> session.dynamic_synonyms]]
    /\ UNCHANGED <<db, faults, syncVars, turn>>

\* The handler is over: the session keeps its dictionary.
NextQuestion ==
    /\ session.pc # "idle"
    /\ session' = IdleSession(session.dynamic_synonyms)
    /\ UNCHANGED <<db, faults, syncVars, turn>>

InitExpand ==
    /\ turn = IdleTurn
    /\ session \in {IdleSession(d) : d \in Dictionaries}
    /\ db = {}
    /\ nextId = 1
    /\ remote = [f \in FileNames |-> NoFile]
    /\ clock = 1
    /\ run = [s \in Sessions |-> IdleRun]
    /\ obs = [s \in Sessions |-> NoObs]
    /\ runs = 0
    /\ faults = 0
    /\ presented = [f \in FileNames |-> 0]

NextExpand ==
    \/ ExpandQuestion
    \/ RewriteQuestion
    \/ ReloadSynonyms
    \/ NextQuestion

SpecExpand == InitExpand /\ [][NextExpand]_vars

\* ----------------------------------------------------- claims: helpers
Min(a, b) == IF a < b THEN a ELSE b

\* The call of session s has returned.
Done(s) == run[s].pc = "done"

\* The call of session s returned from the end of its file loop or from one
\* of the early returns, not from the outer exception handler.
Completed(s) == Done(s) /\ ~obs[s].aborted

\* The rows the current run of session s inserted.
InsertedRows(s) == {r \in db : r.id \in obs[s].inserted}

\* The current run of session s stored chunk k of file f.
Stored(s, f, k) ==
    \E r \in InsertedRows(s) : r.metadata.source = f /\ r.metadata.chunk_index = k

\* The queued files whose loop iteration is over.
PastFiles(s) == {run[s].files[n] : n \in 1..Min(run[s].idx - 1, Len(run[s].files))}

ChunkIndexes == 0..(ChunksPerFile - 1)

\* The chunks whose embedding or insert failed in the current run of s.
FailedChunks(s) == obs[s].embedFailed \cup obs[s].insertFailed

\* The counts a run logs: the files it queued and skipped as already stored,
\* the files it processed, the chunks it stored.
Summary(r) ==
    [new |-> Len(r.files), skipped |-> Len(r.skipped_files),
     processed |-> r.processed_files, chunks |-> r.total_chunks]

\* ------------------------------------------------------------- claims
\* C1: after a sync run, every stored row of a listed file comes from content
\* at least as new as the modification time the file was listed with; a file
\* re-uploaded since it was stored keeps no row of its prior version.
C1_UpdatedFileReplaced ==
    \A s \in Sessions :
        Completed(s) =>
            \A n \in DOMAIN run[s].listed :
                \A r \in db :
                    r.metadata.source = run[s].listed[n]
                        => r.content.ver >= obs[s].mtimeAtList[n]

\* C2: a file an earlier run was presented with, whose modification time has
\* not changed since, gets no extraction call and no embedding call.
C2_UnchangedNeverExtracted ==
    \A s \in Sessions :
        \A f \in obs[s].unchanged :
            /\ f \notin obs[s].extract
            /\ \A k \in ChunkIndexes : <<f, k>> \notin obs[s].embed

\* C3: after a sync run no stored row has a source that is absent from the
\* listing of that run.
C3_NoOrphanRecords ==
    \A s \in Sessions :
        Completed(s) =>
            \A r \in db : r.metadata.source \in Range(run[s].listed)

\* C4: whatever failed while a file of the queue was processed (its download
\* or extraction, its split, the embedding or the insert of a chunk), the run
\* takes every queued file through extraction and stores every chunk of a file
\* with valid text whose own split, embedding and insert did not fail.
C4_FailureDoesNotAbortQueue ==
    \A s \in Sessions :
        Done(s) =>
            \A f \in Range(run[s].files) :
                /\ f \in obs[s].extract
                /\ \/ f \in obs[s].fileFailed \cup obs[s].blankFiles \cup obs[s].splitFailed
                   \/ \A k \in ChunkIndexes :
                        <<f, k>> \in FailedChunks(s) \/ Stored(s, f, k)

\* C5: the counts a run reports: processed is the number of files it indexed
\* and failed the number of files whose processing failed.
C5_CountsMatchOutcome ==
    \A s \in Sessions :
        Completed(s) =>
            /\ HasKey(Summary(run[s]), "processed")
            /\ MetaGet(Summary(run[s]), "processed") =
                 Cardinality({f \in Range(run[s].files) :
                                \E k \in ChunkIndexes : Stored(s, f, k)})
            /\ obs[s].fileFailed # {} =>
                 /\ HasKey(Summary(run[s]), "failed")
                 /\ MetaGet(Summary(run[s]), "failed") = Cardinality(obs[s].fileFailed)

\* C6: a chunk whose embedding call failed is not stored, and every other
\* chunk of its file is embedded and, unless its own embedding or insert
\* failed, stored by the time the file's iteration is over.
C6_BadChunkSkippedAlone ==
    \A s \in Sessions :
        \A fk \in obs[s].embedFailed :
            /\ ~Stored(s, fk[1], fk[2])
            /\ fk[1] \in PastFiles(s) =>
                 \A j \in ChunkIndexes \ {fk[2]} :
                    /\ <<fk[1], j>> \in obs[s].embed
                    /\ <<fk[1], j>> \in FailedChunks(s) \/ Stored(s, fk[1], j)

\* C6 witness: the embedding of the first chunk of a file failed and a later
\* chunk of the same file is stored.
C6_Witness ==
    \E s \in Sessions :
        \E fk \in obs[s].embedFailed :
            /\ fk[2] = 0
            /\ fk[1] \in PastFiles(s)
            /\ \E j \in ChunkIndexes : j > fk[2] /\ Stored(s, fk[1], j)

\* C7: every stored row carries in its metadata a last_modified equal to the
\* remote modification time of the version of the file it was cut from.
C7_RowsCarryRemoteMtime ==
    \A r \in db :
        /\ HasKey(r.metadata, "last_modified")
        /\ MetaGet(r.metadata, "last_modified") = r.content.ver

\* C9: a file whose extracted text is empty or blank gets no row, and the run
\* counts it among its skipped files.
C9_BlankFileCountedSkipped ==
    \A s \in Sessions :
        Completed(s) =>
            \A f \in obs[s].blankFiles :
                /\ \A k \in ChunkIndexes : ~Stored(s, f, k)
                /\ f \in Range(run[s].skipped_files)

\* C8: a search call whose select of the rows failed does not return the value
\* a search of an empty table returns.
C8_StoreFailureSurfaced ==
    \A n \in turn.store_failed : turn.returns[n] # EmptyReturn

\* The chunks, as (source, stripped content), the call of variant n returned.
ReturnedChunks(n) ==
    {<<d.metadata.source, Strip(d.page_content)>> : d \in Range(turn.returns[n].documents)}

\* The times a chunk occurs in the merged list.
MergedCount(chunk) ==
    Cardinality({m \in DOMAIN turn.all_docs :
                   <<turn.all_docs[m].metadata.source,
                     Strip(turn.all_docs[m].page_content)>> = chunk})

\* C10: a chunk two variants of one turn both retrieved is in the merged list
\* exactly once.
C10_SharedChunkMergedOnce ==
    \A i, j \in DOMAIN turn.returns :
        i < j =>
            \A chunk \in ReturnedChunks(i) \cap ReturnedChunks(j) :
                MergedCount(chunk) = 1

\* ------------------------------------------------- claims: retrieval
\* The thresholds of the vector phase and the floor of accepted hits the
\* escalation asks for, on the scale of Scores.
HIGH_THRESHOLD == 2
LOW_THRESHOLD == 1
MIN_FLOOR == 5

\* The calls of the turn that loaded the stored rows.
LoadedCalls == DOMAIN turn.returns \ turn.store_failed

\* The stored rows the call of variant n took in its vector phase.
InVectorPhase(n) == {turn.vector_results[n][m].id : m \in DOMAIN turn.vector_results[n]}

\* The call of variant n returned the chunk of row r.
Returned(n, r) ==
    \E d \in Range(turn.returns[n].documents) :
        d.page_content = r.content /\ d.metadata = r.metadata

\* Row r reaches min_keyword_count occurrences of the keywords of variant n.
KeywordHit(n, r) ==
    KeywordCount(turn.search_queries[n], r.content) >= MIN_KEYWORD_COUNT

ThresholdInEffect(n) ==
    IF Cardinality({r \in db :
          CosineSimilarity(turn.search_queries[n], r.content) >= HIGH_THRESHOLD}) >= MIN_FLOOR
    THEN HIGH_THRESHOLD
    ELSE LOW_THRESHOLD

\* C12: no hit of the vector phase of a call has a similarity below the
\* threshold in effect for it.
C12_VectorHitsMeetThreshold ==
    \A n \in LoadedCalls :
        \A m \in DOMAIN turn.vector_results[n] :
            turn.vector_results[n][m].similarity >= ThresholdInEffect(n)

\* C13: a turn whose search failed for one variant still searches every other
\* variant: at its end every variant has a result, an empty one for the
\* variant that failed.
C13_FailedVariantAloneEmpty ==
    turn.pc = "done" => Len(turn.returns) = Len(turn.search_queries)

\* C14: the list handed to answer generation is ordered by score, highest
\* first.
C14_RankedByScore ==
    turn.pc = "done" =>
        \A m \in 1..(Len(turn.similarity_info) - 1) :
            turn.similarity_info[m].score >= turn.similarity_info[m + 1].score

\* C14 witness: the merged list was not in the order of the scores before the
\* ranking, and the ranked list has chunks of different scores.
C14_Witness ==
    /\ turn.pc = "done"
    /\ \E m \in 1..(Len(turn.all_infos) - 1) :
         turn.all_infos[m].score < turn.all_infos[m + 1].score
    /\ \E m \in 1..(Len(turn.similarity_info) - 1) :
         turn.similarity_info[m].score > turn.similarity_info[m + 1].score

\* C15: the list handed to answer generation has at most 15 chunks.
C15_AtMostFifteen ==
    /\ Len(turn.source_docs) <= MAX_SOURCE_DOCS
    /\ Len(turn.similarity_info) <= MAX_SOURCE_DOCS

\* C15 witness: the variants of a turn merged more than 15 chunks and 15 are
\* handed on.
C15_Witness ==
    /\ turn.pc = "done"
    /\ Len(turn.all_docs) > MAX_SOURCE_DOCS
    /\ Len(turn.source_docs) = MAX_SOURCE_DOCS

\* ------------------------------------------------- claims: expansion
\* The cap on the number of variants of one question.
MAX_EXPANSIONS == 7

\* key occurs in str as a whole word (or run of whole words): with a space or
\* an end of the string on either side.
WholeWordIn(key, str) ==
    \E i \in Occurrences(key, str) :
        /\ i = 1 \/ str[i - 1] = Space
        /\ i + Len(key) - 1 = Len(str) \/ str[i + Len(key)] = Space

\* An expansion is over.
Expanded == session.pc = "expanded"

\* C16: the expansion of a question contains the question, as its first element.
C16_OriginalQueryFirst ==
    Expanded =>
        /\ session.original_query \in Range(session.search_queries)
        /\ session.search_queries[1] = session.original_query

\* C17: the expansion of a question has no string twice and at most 7 strings.
C17_NoDuplicatesAtMostSeven ==
    Expanded =>
        /\ \A i, j \in DOMAIN session.search_queries :
             session.search_queries[i] = session.search_queries[j] => i = j
        /\ Len(session.search_queries) <= MAX_EXPANSIONS

\* C18: every string of the expansion is the question, a keyword of the LLM or
\* a synonym of a key that is a whole word of the question: a key that is
\* only part of a longer word adds nothing.
C18_WholeWordsOnly ==
    Expanded =>
        \A str \in Range(session.search_queries) :
            \/ str = session.original_query
            \/ str \in Range(session.ai_keywords)
            \/ \E key \in DOMAIN session.dynamic_synonyms :
                 /\ WholeWordIn(key, session.original_query)
                 /\ str \in Range(session.dynamic_synonyms[key])

\* C19: a key that is a word of the question adds its synonyms to the
\* expansion, and a synonym that is a word of the question adds its key and
\* the key's other synonyms.
C19_Bidirectional ==
    Expanded =>
        \A key \in DOMAIN session.dynamic_synonyms :
            LET synonyms == Range(session.dynamic_synonyms[key])
            IN  /\ WholeWordIn(key, session.original_query)
                     => synonyms \subseteq Range(session.search_queries)
                /\ (\E syn \in synonyms : WholeWordIn(syn, session.original_query))
                     => ({key} \cup synonyms) \subseteq Range(session.search_queries)

\* C20: rewriting returns the query as it is when no history is given or the
\* history is empty, without a call of the LLM, and when the call of the LLM
\* fails; the prompt of a call quotes the last 3 turns of the history only.
C20_RewriteFallsBack ==
    session.pc = "rewritten" =>
        LET r     == session.rewritten
            turns == session.chat_history.turns
        IN  /\ NoHistory(session.chat_history)
                 => r.result = session.original_query /\ ~r.called
            /\ session.llm_failed => r.result = session.original_query
            /\ r.called =>
                 /\ Len(r.sent) = Min(Len(turns), 3)
                 /\ \A j \in DOMAIN r.sent :
                      r.sent[j].question = turns[Len(turns) - Len(r.sent) + j].question

\* C20 witness: with a history of more than 3 turns the call of the LLM failed
\* and the query came back as it was.
C20_Witness ==
    /\ session.pc = "rewritten"
    /\ Len(session.chat_history.turns) > 3
    /\ session.rewritten.called
    /\ session.llm_failed
    /\ session.rewritten.result = session.original_query

\* ---------------------------------------------------- claims: reload
\* C21: after a reload that loaded a dictionary, the dictionary in use is the
\* loaded one, also when it has no entry; after a reload that failed, the
\* dictionary in use is the one before.
C21_ReloadReplaces ==
    session.pc = "reloaded" =>
        IF session.reload.failed
        THEN session.dynamic_synonyms = session.reload.prior
        ELSE session.dynamic_synonyms = session.reload.new_dict

\* ------------------------------------------------- claims: extraction
\* C22: download_file_content never lets an exception out: whatever the file
\* and whether or not the network holds, it returns a text, and the empty
\* text when something inside it failed.
C22_DownloadNeverRaises ==
    \A f \in FileNames, netOk \in BOOLEAN :
        /\ DownloadFileContent(f, netOk) \in Texts
        /\ ExtractionRaises(f, netOk) => DownloadFileContent(f, netOk) = EmptyText

\* A run called download_file_content on a corrupt file, took the empty text
\* it returned for a failed file and went on.
C22_Witness ==
    \E s \in Sessions, f \in FileNames :
        /\ remote[f].present /\ remote[f].kind = "corrupt"
        /\ f \in obs[s].extract /\ f \in obs[s].fileFailed
        /\ run[s].pc \in {"file", "chunk", "done"}

\* ---------------------------------------------------- claims: storage
\* C26: the number a sync run returns is the number of chunk records the run
\* inserted, also when calls for some of its chunks failed.
C26_ReturnCountsInserted ==
    \A s \in Sessions :
        Completed(s) => run[s].returned = Cardinality(InsertedRows(s))

\* C28: a run whose read of the stored source names failed inserts no second
\* copy of a chunk of a file that storage already held.
C28_FailedReadInsertsNoCopy ==
    \A s \in Sessions :
        obs[s].readFailed =>
            \A r \in InsertedRows(s), old \in db \ InsertedRows(s) :
                ~ /\ old.metadata.source = r.metadata.source
                  /\ old.metadata.chunk_index = r.metadata.chunk_index

\* ------------------------------------------------------ claims: merge
\* C29: two chunks the variants of a turn retrieved whose contents are the
\* same and whose sources differ are both in the merged list.
C29_SameContentOtherSourceKept ==
    (turn.pc = "done" /\ ~turn.error) =>
        \A i, j \in DOMAIN turn.returns :
            \A c \in ReturnedChunks(i), d \in ReturnedChunks(j) :
                (c[2] = d[2] /\ c[1] # d[1]) =>
                    MergedCount(c) >= 1 /\ MergedCount(d) >= 1

\* The chunk of row r is in the list handed to answer generation.
InSourceDocs(r) ==
    \E d \in Range(turn.source_docs) :
        d.page_content = r.content /\ d.metadata = r.metadata

\* C30: a record the keyword phase of some variant force-included is in the
\* final chunk list of the turn, however many variants there are and however
\* many hits of higher score.
C30_ForcedRecordReachesAnswer ==
    (turn.pc = "done" /\ ~turn.error) =>
        \A n \in LoadedCalls :
            \A r \in db :
                (r.id \notin InVectorPhase(n) /\ KeywordHit(n, r) /\ Returned(n, r))
                    => InSourceDocs(r)

\* ------------------------------------------- claims: other files' rows
\* The file the run of session s is processing.
CurrentFile(s) == run[s].files[run[s].idx]

\* C25: while a run processes file F, whether the processing succeeds or
\* fails, no step deletes or changes a stored record whose source is not F.
C25_OtherSourcesUntouched ==
    [][\A s \in Sessions :
          run[s].pc \in {"file", "chunk"} =>
              \A r \in db : r.metadata.source # CurrentFile(s) => r \in db']_vars

\* C25 witness: a run has inserted a chunk of the file it is processing while
\* the table holds records of another source.
C25_Witness ==
    \E s \in Sessions :
        /\ run[s].pc = "chunk"
        /\ \E r \in InsertedRows(s) : r.metadata.source = CurrentFile(s)
        /\ \E old \in db : old.metadata.source # CurrentFile(s)

\* ------------------------------------------------------ claims: reset
\* C23: when reset_database has returned True the documents table is empty,
\* and when its deletion failed it has returned False.
C23_ResetEmptiesOrFails ==
    \A s \in Sessions :
        run[s].pc = "reset" =>
            /\ run[s].reset.returned => db = {}
            /\ run[s].reset.deleteFailed => ~run[s].reset.returned

\* C23 witness: a reset that found rows in the table returned True.
C23_Witness ==
    \E s \in Sessions :
        /\ run[s].pc = "reset"
        /\ run[s].reset.existing_count > 0
        /\ run[s].reset.returned
        /\ db = {}

\* ------------------------------------------------ claims: interruption
\* C24: a sync run was interrupted after it had stored some of the chunks of
\* file F; once the next run over the same listing has completed, without a
\* failed call, storage holds every chunk of F.
C24_InterruptedFileCompleted ==
    \A s \in Sessions :
        \A e \in run[s].interrupted :
            ( /\ Completed(s)
              /\ e[1] \in Range(run[s].listed)
              /\ remote[e[1]].present
              /\ remote[e[1]].modifiedTime = e[2]
              /\ remote[e[1]].kind = "text"
              /\ FailedChunks(s) = {} /\ obs[s].fileFailed = {} /\ ~obs[s].readFailed )
            => \A k \in ChunkIndexes :
                   \E r \in db : r.metadata.source = e[1] /\ r.metadata.chunk_index = k

\* ------------------------------------------------ claims: concurrency
\* C27: however two sync runs over the same listing and the same initial
\* storage interleave, no two stored records have the same source and the same
\* chunk index.
C27_NoSharedChunkIndex ==
    \A r1, r2 \in db :
        r1.id # r2.id =>
            ~ /\ r1.metadata.source = r2.metadata.source
              /\ r1.metadata.chunk_index = r2.metadata.chunk_index
====
